---- MODULE Spec2Model ----
(***************************************************************************)
(* Tic-tac-toe with move history and time travel (learn-react).            *)
(*                                                                         *)
(* The state is the React state of the Game component: `history` (the list *)
(* of board snapshots) and `currentMove`.  Every event handler runs to     *)
(* completion, so each handler is one action.  A board is a function from  *)
(* the cell indices 0..8 to a mark or Null; `history` is a sequence, so    *)
(* the snapshot the code calls history[k] is history[k + 1] here.          *)
(* The sort toggle of the move list only reorders the rendered list and is *)
(* left out.  `evalSquares` and `evalResult` are the argument and the      *)
(* result of calculateGameResult when it is examined on its own, over      *)
(* every board (SpecEval); the game specifications leave them alone.       *)
(***************************************************************************)
EXTENDS Integers, Sequences, FiniteSets

VARIABLES history, currentMove, evalSquares, evalResult

gameVars == <<history, currentMove>>
evalVars == <<evalSquares, evalResult>>
vars == <<history, currentMove, evalSquares, evalResult>>

\* ---------------------------------------------------------------- bounds
\* Spec explores histories of at most MaxLen snapshots, clicking any cell.
MaxLen == 6
\* SpecNarrow explores full games, clicking only the first ClickWidth empty
\* cells (and any filled cell).
ClickWidth == 2

\* ------------------------------------------------------------- constants
\* Array(9): the number of squares of a board.
NumSquares == 9
\* Math.floor(i / 3), i % 3: the number of columns of the move location.
NumCols == 3

Null == "null"
Marks == {"X", "O"}
Cells == 0 .. (NumSquares - 1)
Boards == [Cells -> Marks \cup {Null}]

\* Array(9).fill(null)
EmptyBoard == [c \in Cells |-> Null]

\* JavaScript truthiness of a cell value: null is falsy, 'X' and 'O' truthy.
Truthy(v) == v # Null

\* Mutation of lines: the columns are listed before the rows.
lines_ColumnsFirst ==
    << <<0, 3, 6>>, <<1, 4, 7>>, <<2, 5, 8>>,
       <<0, 1, 2>>, <<3, 4, 5>>, <<6, 7, 8>>,
       <<0, 4, 8>>, <<2, 4, 6>> >>

\* The `lines` table of calculateGameResult / calculateWinnerLine.
lines ==
    << <<0, 1, 2>>, <<3, 4, 5>>, <<6, 7, 8>>,
       <<0, 3, 6>>, <<1, 4, 7>>, <<2, 5, 8>>,
       <<0, 4, 8>>, <<2, 4, 6>> >>

\* Mutation of LineMatches: the test that the first cell is filled is
\* forgotten, so three empty cells match (null === null).
LineMatches_NoTruthy(squares, line) ==
    /\ squares[line[1]] = squares[line[2]]
    /\ squares[line[1]] = squares[line[3]]

\* Mutation of LineMatches: the comparison with the third cell is forgotten.
LineMatches_TwoCells(squares, line) ==
    /\ Truthy(squares[line[1]])
    /\ squares[line[1]] = squares[line[2]]

\* The test of the loop body for one line [a, b, c].
LineMatches(squares, line) ==
    /\ Truthy(squares[line[1]])
    /\ squares[line[1]] = squares[line[2]]
    /\ squares[line[1]] = squares[line[3]]

\* Mutation of EveryTruthy: the draw test is missing, as in version 1.
EveryTruthy_Never(squares) == FALSE

\* Mutation of EveryTruthy: squares.some(Boolean) instead of every.
EveryTruthy_Some(squares) == \E c \in Cells : Truthy(squares[c])

\* squares.every(Boolean)
EveryTruthy(squares) == \A c \in Cells : Truthy(squares[c])

\* The for loop of calculateGameResult from line number i on (1-based here),
\* followed by the draw test when the loop falls through.
RECURSIVE ScanLines(_, _)
ScanLines(squares, i) ==
    IF i > Len(lines)
    THEN [status |-> IF EveryTruthy(squares) THEN "Draw" ELSE "Not Finished"]
    ELSE IF LineMatches(squares, lines[i])
         THEN [status |-> "Has Winner",
               winner |-> squares[lines[i][1]],
               winnerLine |-> lines[i]]
         ELSE ScanLines(squares, i + 1)

calculateGameResult(squares) == ScanLines(squares, 1)

\* ------------------------------------------------------------ game state
\* Mutation of xIsNext: the parity test is inverted, so O moves first.
xIsNext_Odd == currentMove % 2 = 1

\* const xIsNext = currentMove % 2 === 0
xIsNext == currentMove % 2 = 0

\* Mutation of currentSquares: the board is given the latest snapshot,
\* history[history.length - 1], whatever move is selected.
currentSquares_Latest == history[Len(history)]

\* const currentSquares = history[currentMove]
currentSquares == history[currentMove + 1]

\* Mutation of NextSquares: the mark ignores whose turn it is.
NextSquares_AlwaysX(squares, i) == [squares EXCEPT ![i] = "X"]

\* nextSquares = squares.slice(); nextSquares[i] = xIsNext ? 'X' : 'O'
NextSquares(squares, i) ==
    [squares EXCEPT ![i] = IF xIsNext THEN "X" ELSE "O"]

\* Mutation of handlePlay: currentMove is set to the length, not the last index.
handlePlay_PastEnd(nextSquares) ==
    LET nextHistory ==
            Append(SubSeq(history, 1, currentMove + 1), nextSquares)
    IN  /\ history' = nextHistory
        /\ currentMove' = Len(nextHistory)

\* Mutation of handlePlay: the history is not truncated before appending.
handlePlay_NoTruncate(nextSquares) ==
    LET nextHistory == Append(history, nextSquares)
    IN  /\ history' = nextHistory
        /\ currentMove' = Len(nextHistory) - 1

\* Mutation of handlePlay: history.slice(0, currentMove) drops the current
\* snapshot as well.
handlePlay_SliceShort(nextSquares) ==
    LET nextHistory ==
            Append(SubSeq(history, 1, currentMove), nextSquares)
    IN  /\ history' = nextHistory
        /\ currentMove' = Len(nextHistory) - 1

\* Game.handlePlay
handlePlay(nextSquares) ==
    LET nextHistory ==
            Append(SubSeq(history, 1, currentMove + 1), nextSquares)
    IN  /\ history' = nextHistory
        /\ currentMove' = Len(nextHistory) - 1

\* Mutation of ClickIgnored: only a filled square stops the click.
ClickIgnored_NoStatus(squares, status, i) == Truthy(squares[i])

\* Mutation of ClickIgnored: only a finished game stops the click.
ClickIgnored_NoCell(squares, status, i) == status # "Not Finished"

\* The early return of Board.handleClick.
ClickIgnored(squares, status, i) ==
    Truthy(squares[i]) \/ status # "Not Finished"

\* Board.handleClick, with the Board props Game passes in.
handleClick(i) ==
    LET squares == currentSquares
        status == calculateGameResult(squares).status
    IN  IF ClickIgnored(squares, status, i)
        THEN UNCHANGED gameVars
        ELSE handlePlay(NextSquares(squares, i))

\* Mutation of jumpTo: jumping also drops the snapshots after the target.
jumpTo_Truncating(nextMove) ==
    /\ currentMove' = nextMove
    /\ history' = SubSeq(history, 1, nextMove + 1)

\* Game.jumpTo
jumpTo(nextMove) ==
    /\ currentMove' = nextMove
    /\ UNCHANGED history

\* The history list renders a jump button for every move but the current one.
JumpTargets == {move \in 0 .. (Len(history) - 1) : move # currentMove}

\* What a render yields when it throws instead of returning, and the test
\* for it; what is computed without throwing is a record with other fields.
Thrown(message) == [error |-> message]
IsThrown(v) == "error" \in DOMAIN v

\* The switch on status of Board: the status line, or the thrown error of
\* the default branch.
statusInfo(result, xNext) ==
    CASE result.status = "Has Winner" ->
             [text |-> <<"Winner: ", result.winner>>]
      [] result.status = "Draw" -> [text |-> <<"Draw">>]
      [] result.status = "Not Finished" ->
             [text |-> <<"Next player: ", IF xNext THEN "X" ELSE "O">>]
      [] OTHER -> Thrown("Invalid game status")

\* The inner for loop of moveLocations from index i on: the location of the
\* first cell in which squares differs from prevSquares, or the thrown error
\* when the loop falls through.
RECURSIVE FirstDifference(_, _, _)
FirstDifference(squares, prevSquares, i) ==
    IF i >= NumSquares
    THEN Thrown("Invalid move")
    ELSE IF squares[i] # prevSquares[i]
         THEN [row |-> i \div NumCols, col |-> i % NumCols]
         ELSE FirstDifference(squares, prevSquares, i + 1)

\* Mutation of moveLocation: row and column are swapped.
moveLocation_Swapped(move) ==
    IF move = 0
    THEN Null
    ELSE LET loc == FirstDifference(history[move + 1], history[move], 0)
         IN  IF IsThrown(loc) THEN loc ELSE [row |-> loc.col, col |-> loc.row]

\* One element of moveLocations: the callback of history.map for a move.
moveLocation(move) ==
    IF move = 0
    THEN Null
    ELSE FirstDifference(history[move + 1], history[move], 0)

\* Game: moveLocations, indexed by the move (0 .. history.length - 1).
moveLocations == [move \in 0 .. (Len(history) - 1) |-> moveLocation(move)]

\* --------------------------------------------------- version 1 of the game
\* Version 1 (the first component of game.tsx) has its own Board and
\* calculateWinnerLine; its Game function (handlePlay, jumpTo, xIsNext,
\* currentSquares) is the same text as the later versions'.

\* The `lines` table of calculateWinnerLine.
winnerLines ==
    << <<0, 1, 2>>, <<3, 4, 5>>, <<6, 7, 8>>,
       <<0, 3, 6>>, <<1, 4, 7>>, <<2, 5, 8>>,
       <<0, 4, 8>>, <<2, 4, 6>> >>

\* The null that calculateWinnerLine returns when no line matches.
NoLine == <<>>

\* The for loop of calculateWinnerLine from line number i on (1-based here).
RECURSIVE ScanWinnerLine(_, _)
ScanWinnerLine(squares, i) ==
    IF i > Len(winnerLines)
    THEN NoLine
    ELSE IF /\ Truthy(squares[winnerLines[i][1]])
            /\ squares[winnerLines[i][1]] = squares[winnerLines[i][2]]
            /\ squares[winnerLines[i][1]] = squares[winnerLines[i][3]]
         THEN winnerLines[i]
         ELSE ScanWinnerLine(squares, i + 1)

calculateWinnerLine(squares) == ScanWinnerLine(squares, 1)

\* const winner = winnerLine ? squares[winnerLine[0]] : null
winnerV1(squares) ==
    LET winnerLine == calculateWinnerLine(squares)
    IN  IF winnerLine # NoLine THEN squares[winnerLine[1]] ELSE Null

\* Mutation of ClickIgnoredV1: the winner is not looked at.
ClickIgnoredV1_NoWinner(squares, winner, i) == Truthy(squares[i])

\* The early return of version 1's Board.handleClick.
ClickIgnoredV1(squares, winner, i) == Truthy(squares[i]) \/ Truthy(winner)

\* Version 1's Board.handleClick.
handleClickV1(i) ==
    LET squares == currentSquares
        winner == winnerV1(squares)
    IN  IF ClickIgnoredV1(squares, winner, i)
        THEN UNCHANGED gameVars
        ELSE handlePlay(NextSquares(squares, i))

\* A click on square i of version 1, as one step of the whole program.
PlayV1(i) == handleClickV1(i) /\ UNCHANGED evalVars

\* The result slot before calculateGameResult has been applied.
NotEvaluated == [status |-> "Not Evaluated"]

Init ==
    /\ history = <<EmptyBoard>>
    /\ currentMove = 0
    /\ evalSquares = EmptyBoard
    /\ evalResult = NotEvaluated

\* A click on square i, as one step of the whole program.
Play(i) == handleClick(i) /\ UNCHANGED evalVars

\* A click on the jump button of a move, as one step of the whole program.
JumpStep(move) == jumpTo(move) /\ UNCHANGED evalVars

Click == \E i \in Cells : Play(i) /\ Len(history') <= MaxLen

Jump == \E move \in JumpTargets : JumpStep(move)

Next == Click \/ Jump

Spec == Init /\ [][Next]_vars

\* The i-th empty cell counted from cell 0 is inside the click window.
InWindow(squares, i) ==
    \/ Truthy(squares[i])
    \/ Cardinality({j \in Cells : j < i /\ ~Truthy(squares[j])}) < ClickWidth

ClickNarrow == \E i \in Cells : InWindow(currentSquares, i) /\ Play(i)

NextNarrow == ClickNarrow \/ Jump

SpecNarrow == Init /\ [][NextNarrow]_vars

\* calculateGameResult on its own: any board as the argument, one call.
InitEval ==
    /\ history = <<EmptyBoard>>
    /\ currentMove = 0
    /\ evalSquares \in Boards
    /\ evalResult = NotEvaluated

Evaluate ==
    /\ evalResult = NotEvaluated
    /\ evalResult' = calculateGameResult(evalSquares)
    /\ UNCHANGED <<history, currentMove, evalSquares>>

NextEval == Evaluate

SpecEval == InitEval /\ [][NextEval]_vars

\* ------------------------------------------------------- claim vocabulary
\* The snapshot the code calls history[k].
Snapshot(k) == history[k + 1]

\* The mark of the player who makes move k (k >= 1): X moves first.
Mover(k) == IF (k - 1) % 2 = 0 THEN "X" ELSE "O"

\* The cells in which two boards differ.
Diff(b1, b2) == {c \in Cells : b1[c] # b2[c]}

\* evaluate(currentBoard()).status
CurrentStatus == calculateGameResult(currentSquares).status

\* play(i) is accepted: the game is not finished and cell i is empty.
PlayAccepted(i) == currentSquares[i] = Null /\ CurrentStatus = "Not Finished"

\* An operation's effect is stated as a pair: ENABLED (Op /\ Post) says the
\* operation, started in this state, can end as Post says, and
\* ~ENABLED (Op /\ ~Post) says it cannot end any other way.

\* C1: in every reachable state currentMove is a valid index into history,
\* 0 <= currentMove < length(history).
C1_CurrentMoveValid ==
    /\ currentMove >= 0
    /\ currentMove < Len(history)

\* C1 witness: three moves were played and the last snapshot is current.
C1_Witness == Len(history) = 4 /\ currentMove = 3

\* C2: in every reachable state each snapshot after the first differs from
\* its predecessor in exactly one cell, which was empty and now holds the
\* mark of the mover of that move (X for odd moves, O for even moves).
C2_OneCellPerMove ==
    \A k \in 1 .. (Len(history) - 1) :
        LET d == Diff(Snapshot(k - 1), Snapshot(k))
        IN  /\ Cardinality(d) = 1
            /\ \A c \in d : /\ Snapshot(k - 1)[c] = Null
                            /\ Snapshot(k)[c] = Mover(k)

\* C2 witness: a history holding moves of both players.
C2_Witness == Len(history) = 5 /\ currentMove = 4

\* What C3 says of the step of an accepted play(i).
C3_Post(i) ==
    /\ Len(history') = currentMove + 2
    /\ \A k \in 0 .. currentMove : history'[k + 1] = history[k + 1]
    /\ history'[currentMove + 2] =
           [c \in Cells |-> IF c = i THEN Mover(currentMove + 1)
                                     ELSE currentSquares[c]]
    /\ currentMove' = currentMove + 1

\* C3: an accepted play(i) from history h and currentMove m yields a history
\* of length m+2 whose entries 0..m are those of h, whose last entry is h[m]
\* with only cell i set to the mover's mark, and currentMove = m+1; entries
\* of h beyond m are discarded.
C3_PlayTruncatesAndAppends ==
    \A i \in Cells :
        PlayAccepted(i) =>
            /\ ENABLED (Play(i) /\ C3_Post(i))
            /\ ~ENABLED (Play(i) /\ ~C3_Post(i))

\* C3 witness: history of length 5 at currentMove = 2, where an accepted
\* play leaves a history of length 4.
C3_Witness ==
    /\ Len(history) = 5
    /\ currentMove = 2
    /\ \E i \in Cells :
           PlayAccepted(i) /\ ENABLED (Play(i) /\ Len(history') = 4)

\* C4: when the current board has a winner or is a draw, play(i) changes
\* neither history nor currentMove, for every cell i.
C4_NoPlayAfterGameOver ==
    CurrentStatus \in {"Has Winner", "Draw"} =>
        \A i \in Cells :
            /\ ENABLED (Play(i) /\ UNCHANGED gameVars)
            /\ ~ENABLED (Play(i) /\ gameVars' # gameVars)

\* C4 witness: a won board that still has an empty cell to click.
C4_Witness ==
    /\ CurrentStatus = "Has Winner"
    /\ \E i \in Cells : currentSquares[i] = Null

\* C5: play(i) on a cell that is not empty changes neither history nor
\* currentMove; an accepted play(i) fills cell i of the current board, so
\* a second play(i) right after it changes nothing.
C5_NoPlayOnFilledCell ==
    \A i \in Cells :
        /\ currentSquares[i] # Null =>
               /\ ENABLED (Play(i) /\ UNCHANGED gameVars)
               /\ ~ENABLED (Play(i) /\ gameVars' # gameVars)
        /\ PlayAccepted(i) =>
               ~ENABLED (Play(i) /\ history'[currentMove' + 1][i] = Null)

\* C5 witness: an unfinished game whose current board has a filled cell.
C5_Witness ==
    /\ CurrentStatus = "Not Finished"
    /\ currentMove = 3
    /\ \E i \in Cells : currentSquares[i] # Null

\* What C6 says of the step of jumpTo(k).
C6_Post(k) ==
    /\ currentMove' = k
    /\ Len(history') = Len(history)
    /\ \A j \in 1 .. Len(history) : \A c \in Cells :
           history'[j][c] = history[j][c]

\* C6: jumpTo(k) with 0 <= k < length(history) sets currentMove to k and
\* leaves history unchanged, in length and cell for cell.
C6_JumpOnlyMovesCursor ==
    \A k \in 0 .. (Len(history) - 1) :
        /\ ENABLED (JumpStep(k) /\ C6_Post(k))
        /\ ~ENABLED (JumpStep(k) /\ ~C6_Post(k))

\* C6 witness: a jump back has left later snapshots in the history.
C6_Witness == Len(history) = 4 /\ currentMove = 1

\* C7: in every reachable state history is not empty and its first snapshot
\* is the all-empty board.
C7_HistoryStartsEmpty ==
    /\ Len(history) >= 1
    /\ \A c \in Cells : history[1][c] = Null

\* C7 witness: after a jump to the start, where a play truncates every
\* later entry and leaves the empty board followed by the new snapshot.
C7_Witness ==
    /\ Len(history) >= 3
    /\ currentMove = 0
    /\ \E i \in Cells :
           ENABLED (Play(i) /\ Len(history') = 2 /\ history'[1] = EmptyBoard)

\* The winning lines in the order the claims fix.
WinningLinesInOrder ==
    << <<0, 1, 2>>, <<3, 4, 5>>, <<6, 7, 8>>,
       <<0, 3, 6>>, <<1, 4, 7>>, <<2, 5, 8>>,
       <<0, 4, 8>>, <<2, 4, 6>> >>

\* Line l of board b holds three equal marks.
IsThree(b, l) ==
    /\ b[l[1]] \in Marks
    /\ b[l[2]] = b[l[1]]
    /\ b[l[3]] = b[l[1]]

HasThree(b) ==
    \E n \in 1 .. Len(WinningLinesInOrder) : IsThree(b, WinningLinesInOrder[n])

\* The first line of three equal marks of b, in the fixed order.
FirstThree(b) ==
    LET n == CHOOSE n \in 1 .. Len(WinningLinesInOrder) :
                 /\ IsThree(b, WinningLinesInOrder[n])
                 /\ \A m \in 1 .. (n - 1) : ~IsThree(b, WinningLinesInOrder[m])
    IN  WinningLinesInOrder[n]

Evaluated == evalResult.status # "Not Evaluated"

C10_Script == <<0, 4, 1, 7, 2>>
C10_Marks == <<"X", "O", "X", "O", "X">>

\* The board after the first n plays of the script.
C10_Board(n) ==
    [c \in Cells |->
        IF \E j \in 1 .. n : C10_Script[j] = c
        THEN C10_Marks[CHOOSE j \in 1 .. n : C10_Script[j] = c]
        ELSE Null]

C10_History(n) == [k \in 1 .. (n + 1) |-> C10_Board(k - 1)]

\* The state after the first n plays of the script from the initial state.
C10_At(n) == history = C10_History(n) /\ currentMove = n

C10_StepPost(n) ==
    /\ history' = C10_History(n + 1)
    /\ currentMove' = n + 1

\* C10: from the initial state play(0), play(4), play(1), play(7), play(2)
\* are each accepted, with marks X, O, X, O, X; the run ends at currentMove 5
\* with a history of length 6, evaluate gives HasWinner, winner X, line
\* [0,1,2], and no play is accepted afterwards.
C10_ScriptedWin ==
    /\ \A n \in 0 .. (Len(C10_Script) - 1) :
           C10_At(n) =>
               /\ ENABLED (Play(C10_Script[n + 1]) /\ C10_StepPost(n))
               /\ ~ENABLED (Play(C10_Script[n + 1]) /\ ~C10_StepPost(n))
    /\ C10_At(Len(C10_Script)) =>
           /\ currentMove = 5
           /\ Len(history) = 6
           /\ calculateGameResult(currentSquares) =
                  [status |-> "Has Winner", winner |-> "X",
                   winnerLine |-> <<0, 1, 2>>]
           /\ \A i \in Cells : ~ENABLED (Play(i) /\ gameVars' # gameVars)

\* C10 witness: the state the script ends in, with X the winner.
C10_Witness ==
    /\ C10_At(Len(C10_Script))
    /\ calculateGameResult(currentSquares).status = "Has Winner"

\* The script of C11: nine plays that fill the board without a line.
C11_Script == <<0, 1, 2, 3, 5, 4, 6, 8, 7>>

\* The board after the first n plays of C11's script, X playing first.
C11_Board(n) ==
    [c \in Cells |->
        IF \E j \in 1 .. n : C11_Script[j] = c
        THEN Mover(CHOOSE j \in 1 .. n : C11_Script[j] = c)
        ELSE Null]

C11_History(n) == [k \in 1 .. (n + 1) |-> C11_Board(k - 1)]

\* The state after the first n plays of C11's script from the initial state.
C11_At(n) == history = C11_History(n) /\ currentMove = n

C11_StepPost(n) ==
    /\ history' = C11_History(n + 1)
    /\ currentMove' = n + 1

\* C11: from the initial state the plays at cells 0,1,2,3,5,4,6,8,7 are each
\* accepted, evaluate being NotFinished before each of them; the run ends
\* with a history of length 10 at currentMove 9, and evaluate gives Draw.
C11_ScriptedDraw ==
    /\ \A n \in 0 .. (Len(C11_Script) - 1) :
           C11_At(n) =>
               /\ calculateGameResult(currentSquares) =
                      [status |-> "Not Finished"]
               /\ ENABLED (Play(C11_Script[n + 1]) /\ C11_StepPost(n))
               /\ ~ENABLED (Play(C11_Script[n + 1]) /\ ~C11_StepPost(n))
    /\ C11_At(Len(C11_Script)) =>
           /\ currentMove = 9
           /\ Len(history) = 10
           /\ calculateGameResult(currentSquares) = [status |-> "Draw"]

\* C11 witness: the state the script ends in, a full board and a draw.
C11_Witness ==
    /\ C11_At(Len(C11_Script))
    /\ \A c \in Cells : currentSquares[c] # Null
    /\ calculateGameResult(currentSquares).status = "Draw"

\* The number of cells of board b that hold mark v.
CountOf(b, v) == Cardinality({c \in Cells : b[c] = v})

\* C12: the turn derived from parity agrees with the boards: in every
\* reachable state snapshot k has exactly k filled cells, ceil(k/2) of them
\* X and floor(k/2) of them O, so X is to move exactly when the current
\* board holds as many X as O.
C12_ParityMatchesBoard ==
    /\ \A k \in 0 .. (Len(history) - 1) :
           /\ CountOf(Snapshot(k), Null) = NumSquares - k
           /\ CountOf(Snapshot(k), "X") = (k + 1) \div 2
           /\ CountOf(Snapshot(k), "O") = k \div 2
    /\ (currentMove % 2 = 0) <=>
           (CountOf(Snapshot(currentMove), "X") =
                CountOf(Snapshot(currentMove), "O"))

\* C12 witness: a continuation other than the first cells in order, as is
\* played after a jump back: X on 0, O on 2, X on 1.
C12_Witness ==
    /\ Len(history) = 4
    /\ currentMove = 3
    /\ Snapshot(1)[0] = "X"
    /\ Snapshot(2)[2] = "O"
    /\ Snapshot(3)[1] = "X"

\* The latest snapshot of the history, and whether it ends the game.
LatestSquares == history[Len(history)]

LatestFinished ==
    calculateGameResult(LatestSquares).status \in {"Has Winner", "Draw"}

\* What C13 says of the step of play(i) made after a jump back to
\* currentMove: the play is accepted and cuts the history to currentMove + 2
\* snapshots, and the finished board is among them only if the play repeats
\* the move that finished the game.
C13_Post(i) ==
    /\ Len(history') = currentMove + 2
    /\ currentMove' = currentMove + 1
    /\ (\E j \in 1 .. Len(history') : history'[j] = LatestSquares) =>
           /\ currentMove = Len(history) - 2
           /\ Diff(history[Len(history) - 1], LatestSquares) = {i}

\* C13: a finished game is not the end under time travel: when the latest
\* board has a winner or is a draw, jumpTo(k) is possible for every
\* k < length(history) - 1, and in the state it leads to play(i) on any cell
\* empty in history[k] is accepted, leaves a history of length k + 2, and
\* leaves the finished board out unless the same cell is replayed.
C13_GameOverNotAbsorbing ==
    LatestFinished =>
        /\ \A k \in 0 .. (Len(history) - 2) :
               ENABLED (JumpStep(k) /\ currentMove' = k /\ history' = history)
        /\ currentMove < Len(history) - 1 =>
               \A i \in Cells :
                   Snapshot(currentMove)[i] = Null =>
                       /\ ENABLED (Play(i) /\ C13_Post(i))
                       /\ ~ENABLED (Play(i) /\ ~C13_Post(i))

\* C13 witness: a drawn game, left by a jump back to move 4, where a play
\* on an empty cell cuts the history to six snapshots without the draw.
C13_Witness ==
    /\ calculateGameResult(LatestSquares).status = "Draw"
    /\ currentMove = 4
    /\ \E i \in Cells :
           /\ Snapshot(currentMove)[i] = Null
           /\ ENABLED (Play(i) /\ Len(history') = 6
                       /\ \A j \in 1 .. 6 : history'[j] # LatestSquares)

\* C14: no sequence of plays and in-range jumps reaches a thrown error: the
\* move-location derivation finds a differing cell for every move i > 0
\* (never 'Invalid move'), and the status switch of the board never takes
\* its default branch ('Invalid game status').
C14_RenderNeverThrows ==
    /\ \A move \in 1 .. (Len(history) - 1) :
           /\ ~IsThrown(moveLocations[move])
           /\ moveLocations[move] \in [row : 0 .. 2, col : 0 .. 2]
    /\ ~IsThrown(statusInfo(calculateGameResult(currentSquares), xIsNext))
    /\ calculateGameResult(currentSquares).status
           \in {"Has Winner", "Draw", "Not Finished"}

\* C14 witness: a full history rendered after a jump back, the board
\* showing the next player and every move having a location.
C14_Witness ==
    /\ Len(history) = 10
    /\ currentMove = 3
    /\ statusInfo(calculateGameResult(currentSquares), xIsNext)
           = [text |-> <<"Next player: ", "O">>]
    /\ \A move \in 1 .. 9 : DOMAIN moveLocations[move] = {"row", "col"}

\* The location (row, column) of cell c, as the claims state it.
LocationOf(c) == [row |-> c \div 3, col |-> c % 3]

\* What C15 says of the step of an accepted play(i): the move it creates
\* gets the location of cell i, and the earlier moves keep theirs.
C15_Post(i) ==
    /\ moveLocations'[currentMove'] = LocationOf(i)
    /\ \A move \in 1 .. currentMove :
           moveLocations'[move] = moveLocations[move]

\* C15: for every move i > 0 of the history the derived move location is
\* (c div 3, c mod 3) for the cell c passed to the play that created
\* history[i]: an accepted play(c) gives its move that location, later plays
\* and jumps leave the locations of the moves they keep unchanged, and the
\* location is that of the one cell the move filled; move 0 has none.
C15_LocationIsPlayedCell ==
    /\ moveLocations[0] = Null
    /\ \A move \in 1 .. (Len(history) - 1) :
           \E c \in Diff(Snapshot(move - 1), Snapshot(move)) :
               moveLocations[move] = LocationOf(c)
    /\ \A i \in Cells :
           PlayAccepted(i) =>
               /\ ENABLED (Play(i) /\ C15_Post(i))
               /\ ~ENABLED (Play(i) /\ ~C15_Post(i))
    /\ \A k \in 0 .. (Len(history) - 1) :
           ~ENABLED (JumpStep(k) /\ moveLocations' # moveLocations)

\* C15 witness: a play on cell 5 is accepted as move 4 and gets the
\* location row 1, column 2.
C15_Witness ==
    /\ currentMove = 3
    /\ PlayAccepted(5)
    /\ ENABLED (Play(5) /\ moveLocations'[4] = [row |-> 1, col |-> 2])

\* The winnerLine of calculateGameResult, NoLine when the result has none.
WinnerLineOf(result) ==
    IF "winnerLine" \in DOMAIN result THEN result.winnerLine ELSE NoLine

\* C16: the versions have the same game-state behaviour: in every reachable
\* state a click on any cell changes history and currentMove in version 1
\* (guard: cell filled or winner exists) exactly as in versions 2 and 3
\* (guard: cell filled or status not NotFinished); jumps are the same code.
\* Hence both stay in the same state after every step of every sequence of
\* clicks and jumps.  On every snapshot calculateWinnerLine returns the
\* winnerLine of calculateGameResult, and null when there is none.
C16_VersionsAgree ==
    /\ \A i \in Cells :
           /\ ENABLED (PlayV1(i) /\ Play(i))
           /\ ~ENABLED (PlayV1(i) /\ ~Play(i))
           /\ ~ENABLED (Play(i) /\ ~PlayV1(i))
    /\ \A k \in 0 .. (Len(history) - 1) :
           calculateWinnerLine(Snapshot(k)) =
               WinnerLineOf(calculateGameResult(Snapshot(k)))

\* C16 witness: a drawn board, which version 1 does not detect as a draw
\* and on which it still ignores every click.
C16_Witness ==
    /\ CurrentStatus = "Draw"
    /\ winnerV1(currentSquares) = Null
    /\ \A i \in Cells : ENABLED (PlayV1(i) /\ UNCHANGED gameVars)

\* C17: a finished board can only be the last entry of the history: in
\* every reachable state evaluate(history[k]) is NotFinished for every
\* k < length(history) - 1.
C17_FinishedOnlyLast ==
    \A k \in 0 .. (Len(history) - 2) :
        calculateGameResult(Snapshot(k)) = [status |-> "Not Finished"]

\* C17 witness: a won game of seven snapshots, seen after a jump back.
C17_Witness ==
    /\ Len(history) = 7
    /\ calculateGameResult(LatestSquares).status = "Has Winner"
    /\ currentMove = 2

\* Board b holds a complete line of mark v.
HasLineOf(b, v) ==
    \E n \in 1 .. Len(WinningLinesInOrder) :
        \A j \in 1 .. 3 : b[WinningLinesInOrder[n][j]] = v

\* C18: no snapshot of the history holds a complete line of X together with
\* a complete line of O, and when evaluate(history[k]) is HasWinner the
\* winner is the player who made move k (X when k is odd, O when k is even).
C18_WinnerIsLastMover ==
    \A k \in 0 .. (Len(history) - 1) :
        /\ ~(HasLineOf(Snapshot(k), "X") /\ HasLineOf(Snapshot(k), "O"))
        /\ calculateGameResult(Snapshot(k)).status = "Has Winner" =>
               /\ k >= 1
               /\ calculateGameResult(Snapshot(k)).winner =
                      (IF k % 2 = 1 THEN "X" ELSE "O")

\* C18 witness: a game that O won with its third mark, at move 6.
C18_Witness ==
    /\ Len(history) = 7
    /\ currentMove = 6
    /\ calculateGameResult(currentSquares).status = "Has Winner"
    /\ calculateGameResult(currentSquares).winner = "O"

\* C19: without jumpTo the game always ends: every accepted play raises
\* currentMove by one, currentMove never exceeds 9 and at 9 the board is
\* finished, while an unfinished board always has a cell to play; so from
\* currentMove m at most 9 - m accepted plays follow and the history never
\* holds more than 10 snapshots.  With jumpTo plays never
\* run out: from every state with currentMove > 0 a jump to move 0 is
\* possible, and at move 0 a play on any cell is accepted.
C19_GameEndsWithoutJumps ==
    /\ currentMove <= NumSquares
    /\ Len(history) <= NumSquares + 1
    /\ currentMove = NumSquares => CurrentStatus \in {"Has Winner", "Draw"}
    /\ CurrentStatus = "Not Finished" => \E i \in Cells : PlayAccepted(i)
    /\ \A i \in Cells :
           ~ENABLED (Play(i) /\ gameVars' # gameVars
                     /\ currentMove' # currentMove + 1)
    /\ currentMove > 0 =>
           ENABLED (JumpStep(0) /\ currentMove' = 0 /\ history' = history)
    /\ currentMove = 0 =>
           \A i \in Cells :
               ENABLED (Play(i) /\ currentMove' = 1 /\ Len(history') = 2)

\* C19 witness: a game played to its ninth move and finished, left by a
\* jump to move 0, where a play is accepted again.
C19_Witness ==
    /\ Len(history) = 10
    /\ LatestFinished
    /\ currentMove = 0
    /\ ENABLED (Play(0) /\ currentMove' = 1)
====
